---- MODULE Spec2Model ----
(***************************************************************************)
(* Model of the three-way merge editor of crates/git_ui                    *)
(* (three_way_merge_editor.rs): the texts of the three buffers, the hunk   *)
(* lists of the two diff passes, region merging, padding and the           *)
(* accept / ignore / resolve handlers.                                     *)
(*                                                                         *)
(* Texts are sequences of characters; rows, indices and offsets are        *)
(* 0-based as in the source, TLA+ sequences are 1-based.                   *)
(***************************************************************************)
EXTENDS Integers, Sequences, FiniteSets

\* ------------------------------------------------------------------------
\* Bounds of the model
\* ------------------------------------------------------------------------

\* most lines of a text the editor is constructed with
MaxLines == 2

\* most direct edits of the base buffer typed in Resolve View
MaxEdits == 1

\* most lines of the text a direct edit leaves in the base buffer
MaxEditLines == 0

\* most lines of a text of the one-sided specification SpecDiff
MaxDiffLines == 4

\* most lines of the base text: an accept that would grow the base buffer
\* beyond it is not taken
MaxBaseLines == 6

\* most lines of a text of the alignment specification SpecAlign
MaxAlignLines == 3

\* most lines of a text of the specification SpecBlocks
MaxBlockLines == 1

\* the line contents the texts are built from, and the line terminator
LineChars == {"a", "b"}
NL == "\n"

\* ------------------------------------------------------------------------
\* Texts
\* ------------------------------------------------------------------------

Max(x, y) == IF x >= y THEN x ELSE y
Min(x, y) == IF x <= y THEN x ELSE y

RECURSIVE Concat(_)
Concat(ss) == IF ss = <<>> THEN <<>> ELSE Head(ss) \o Concat(Tail(ss))

RECURSIVE SumSeq(_)
SumSeq(ns) == IF ns = <<>> THEN 0 ELSE Head(ns) + SumSeq(Tail(ns))

\* a text of n lines of one character each; the last line is terminated
\* iff trailing (an empty text has no last line)
TextOf(contents, trailing) ==
    Concat([i \in 1..Len(contents) |->
              IF i < Len(contents) \/ trailing
              THEN <<contents[i], NL>> ELSE <<contents[i]>>])

TextsUpTo(max_lines) ==
    {<<>>} \cup
    UNION {{TextOf(c, t) : c \in [1..n -> LineChars], t \in BOOLEAN} : n \in 1..max_lines}

Texts == TextsUpTo(MaxLines)

\* index of the first NL of t at or after position k, or Len(t) when none
RECURSIVE LineEnd(_, _)
LineEnd(t, k) ==
    IF k >= Len(t) THEN Len(t)
    ELSE IF t[k] = NL THEN k ELSE LineEnd(t, k + 1)

\* similar::TextDiff::from_lines tokenisation: lines keep their terminator
RECURSIVE DiffLines(_)
DiffLines(t) ==
    IF t = <<>> THEN <<>>
    ELSE LET k == LineEnd(t, 1)
         IN <<SubSeq(t, 1, k)>> \o DiffLines(SubSeq(t, k + 1, Len(t)))

StripNL(l) == IF l /= <<>> /\ l[Len(l)] = NL THEN SubSeq(l, 1, Len(l) - 1) ELSE l

\* str::lines(): the lines without their terminators
StrLines(t) ==
    LET ls == DiffLines(t)
    IN [i \in 1..Len(ls) |-> StripNL(ls[i])]

\* [..].join("\n")
RECURSIVE JoinLines(_)
JoinLines(ls) ==
    IF ls = <<>> THEN <<>>
    ELSE IF Len(ls) = 1 THEN ls[1]
    ELSE ls[1] \o <<NL>> \o JoinLines(Tail(ls))

\* Buffer snapshot: max_point().row is the number of line terminators
MaxPointRow(t) == Cardinality({i \in 1..Len(t) : t[i] = NL})

\* offset of Point::new(row, 0) for row <= max_point.row
RECURSIVE RowOffset(_, _)
RowOffset(t, row) ==
    IF row = 0 THEN 0
    ELSE LET p == RowOffset(t, row - 1)
         IN LineEnd(t, p + 1)

\* buffer.edit([(start..end, new)]) on 0-based offsets
Edit(t, start, end, new) ==
    SubSeq(t, 1, start) \o new \o SubSeq(t, end + 1, Len(t))

EndsWithNL(t) == t /= <<>> /\ t[Len(t)] = NL

\* ------------------------------------------------------------------------
\* Line diff (similar::TextDiff::from_lines(..).ops())
\*
\* A deterministic longest-common-subsequence line diff: the common prefix
\* and the common suffix are matched first, otherwise a line of the old text is
\* deleted unless inserting the new line keeps a longer common subsequence.
\* Neighbouring deletions and insertions between two equal runs are one
\* operation: Delete, Insert, or Replace when both occur.
\* ------------------------------------------------------------------------

RECURSIVE LcsLen(_, _, _, _)
LcsLen(a, b, i, j) ==
    IF i > Len(a) \/ j > Len(b) THEN 0
    ELSE IF a[i] = b[j] THEN 1 + LcsLen(a, b, i + 1, j + 1)
    ELSE Max(LcsLen(a, b, i + 1, j), LcsLen(a, b, i, j + 1))

\* the edit script, one tag per step: "E" equal, "D" delete, "I" insert
RECURSIVE EditScript(_, _, _, _)
EditScript(a, b, i, j) ==
    IF i > Len(a) THEN [k \in 1..(Len(b) - j + 1) |-> "I"]
    ELSE IF j > Len(b) THEN [k \in 1..(Len(a) - i + 1) |-> "D"]
    ELSE IF a[i] = b[j] THEN <<"E">> \o EditScript(a, b, i + 1, j + 1)
    ELSE IF LcsLen(a, b, i + 1, j) >= LcsLen(a, b, i, j + 1)
         THEN <<"D">> \o EditScript(a, b, i + 1, j)
         ELSE <<"I">> \o EditScript(a, b, i, j + 1)

\* length of the run of steps from k on that are equal (eq) or not equal
RECURSIVE RunLen(_, _, _)
RunLen(s, k, eq) ==
    IF k > Len(s) \/ ((s[k] = "E") /= eq) THEN 0 ELSE 1 + RunLen(s, k + 1, eq)

CountTag(s, from, to, tag) == Cardinality({k \in from..to : s[k] = tag})

DiffOp(tag, oi, ol, ni, nl) ==
    [tag |-> tag, old_index |-> oi, old_len |-> ol, new_index |-> ni, new_len |-> nl]

RECURSIVE GroupOps(_, _, _, _)
GroupOps(s, k, oi, ni) ==
    IF k > Len(s) THEN <<>>
    ELSE IF s[k] = "E"
    THEN LET r == RunLen(s, k, TRUE)
         IN <<DiffOp("Equal", oi, r, ni, r)>> \o GroupOps(s, k + r, oi + r, ni + r)
    ELSE LET r == RunLen(s, k, FALSE)
             d == CountTag(s, k, k + r - 1, "D")
             n == CountTag(s, k, k + r - 1, "I")
             tag == IF n = 0 THEN "Delete" ELSE IF d = 0 THEN "Insert" ELSE "Replace"
         IN <<DiffOp(tag, oi, d, ni, n)>> \o GroupOps(s, k + r, oi + d, ni + n)

\* number of leading lines the two sequences share
RECURSIVE CommonPrefixLen(_, _)
CommonPrefixLen(a, b) ==
    IF a = <<>> \/ b = <<>> \/ Head(a) /= Head(b) THEN 0
    ELSE 1 + CommonPrefixLen(Tail(a), Tail(b))

\* number of trailing lines the two sequences share, at most limit
RECURSIVE CommonSuffixLen(_, _, _)
CommonSuffixLen(a, b, limit) ==
    IF limit = 0 \/ a[Len(a)] /= b[Len(b)] THEN 0
    ELSE 1 + CommonSuffixLen(SubSeq(a, 1, Len(a) - 1), SubSeq(b, 1, Len(b) - 1), limit - 1)

\* the common prefix and the common suffix are Equal; the lines between
\* them are diffed
DiffOps(old_text, new_text) ==
    LET a == DiffLines(old_text)
        b == DiffLines(new_text)
        p == CommonPrefixLen(a, b)
        s == CommonSuffixLen(a, b, Min(Len(a), Len(b)) - p)
        script == EditScript(SubSeq(a, 1, Len(a) - s), SubSeq(b, 1, Len(b) - s), 1, 1)
                  \o [k \in 1..s |-> "E"]
    IN GroupOps(script, 1, 0, 0)

\* ------------------------------------------------------------------------
\* Hunks (compute_diff_hunks)
\* ------------------------------------------------------------------------

Range(s, e) == [start |-> s, end |-> e]
RangeLen(r) == r.end - r.start

HunkStatus == {"Pending", "Accepted", "Ignored"}
DiffChangeKind == {"Added", "Deleted", "Modified"}
MergeSide == {"Theirs", "Ours"}

MergeHunk(side, kind, source_rows, base_rows, text, status) ==
    [side |-> side, kind |-> kind, source_rows |-> source_rows,
     base_rows |-> base_rows, text |-> text, status |-> status]

\* LinesText over lines that keep their terminators
LinesText_with_terminators(target_text, start, len) ==
    LET ls == DiffLines(target_text)
    IN JoinLines(SubSeq(ls, start + 1, Min(start + len, Len(ls))))

\* target_text.lines().skip(start).take(len).collect().join("\n")
LinesText(target_text, start, len) ==
    LET ls == StrLines(target_text)
    IN JoinLines(SubSeq(ls, start + 1, Min(start + len, Len(ls))))

\* HunkOfOp with the end of a deleted base range taken inclusively
HunkOfOp_inclusive(op, target_text, side) ==
    IF op.tag = "Delete"
    THEN MergeHunk(side, "Deleted",
                   Range(op.new_index, op.new_index),
                   Range(op.old_index, op.old_index + op.old_len + 1),
                   <<>>, "Pending")
    ELSE IF op.tag = "Insert"
    THEN MergeHunk(side, "Added",
                   Range(op.new_index, op.new_index + op.new_len),
                   Range(op.old_index, op.old_index),
                   LinesText(target_text, op.new_index, op.new_len), "Pending")
    ELSE MergeHunk(side, "Modified",
                   Range(op.new_index, op.new_index + op.new_len),
                   Range(op.old_index, op.old_index + op.old_len),
                   LinesText(target_text, op.new_index, op.new_len), "Pending")

\* HunkOfOp with the empty range of an Added hunk anchored at the new index
\* and that of a Deleted hunk at the old index
HunkOfOp_anchors_exchanged(op, target_text, side) ==
    IF op.tag = "Delete"
    THEN MergeHunk(side, "Deleted",
                   Range(op.old_index, op.old_index),
                   Range(op.old_index, op.old_index + op.old_len),
                   <<>>, "Pending")
    ELSE IF op.tag = "Insert"
    THEN MergeHunk(side, "Added",
                   Range(op.new_index, op.new_index + op.new_len),
                   Range(op.new_index, op.new_index),
                   LinesText(target_text, op.new_index, op.new_len), "Pending")
    ELSE MergeHunk(side, "Modified",
                   Range(op.new_index, op.new_index + op.new_len),
                   Range(op.old_index, op.old_index + op.old_len),
                   LinesText(target_text, op.new_index, op.new_len), "Pending")

HunkOfOp(op, target_text, side) ==
    IF op.tag = "Delete"
    THEN MergeHunk(side, "Deleted",
                   Range(op.new_index, op.new_index),
                   Range(op.old_index, op.old_index + op.old_len),
                   <<>>, "Pending")
    ELSE IF op.tag = "Insert"
    THEN MergeHunk(side, "Added",
                   Range(op.new_index, op.new_index + op.new_len),
                   Range(op.old_index, op.old_index),
                   LinesText(target_text, op.new_index, op.new_len), "Pending")
    ELSE MergeHunk(side, "Modified",
                   Range(op.new_index, op.new_index + op.new_len),
                   Range(op.old_index, op.old_index + op.old_len),
                   LinesText(target_text, op.new_index, op.new_len), "Pending")

\* SelectNotEqual without the skip of Equal operations
SelectNotEqual_all(op) == TRUE

SelectNotEqual(op) == op.tag /= "Equal"

compute_diff_hunks(base_text, target_text, side) ==
    LET ops == SelectSeq(DiffOps(base_text, target_text), SelectNotEqual)
    IN [i \in 1..Len(ops) |-> HunkOfOp(ops[i], target_text, side)]

\* ------------------------------------------------------------------------
\* Region merging (update_alignment_and_highlighting, first half)
\* ------------------------------------------------------------------------

IsPending(h) == h.status = "Pending"

\* one ChangeEvent per Pending hunk; the range of the other side is None,
\* modelled as the empty sequence of ranges
ChangeEvent(h) ==
    [base_range |-> h.base_rows,
     theirs_range |-> IF h.side = "Theirs" THEN <<h.source_rows>> ELSE <<>>,
     ours_range |-> IF h.side = "Ours" THEN <<h.source_rows>> ELSE <<>>]

CollectEvents(t_hunks, o_hunks) ==
    LET tp == SelectSeq(t_hunks, IsPending)
        op == SelectSeq(o_hunks, IsPending)
    IN [i \in 1..Len(tp) |-> ChangeEvent(tp[i])] \o [i \in 1..Len(op) |-> ChangeEvent(op[i])]

\* a.base_range.start.cmp(b.start).then(a.base_range.end.cmp(b.end)) is Greater
EventGreater(a, b) ==
    \/ a.base_range.start > b.base_range.start
    \/ /\ a.base_range.start = b.base_range.start
       /\ a.base_range.end > b.base_range.end

\* Vec::sort_by is stable: e goes behind every element that is not greater
RECURSIVE InsertEvent(_, _)
InsertEvent(sorted, e) ==
    IF sorted = <<>> THEN <<e>>
    ELSE IF EventGreater(Head(sorted), e) THEN <<e>> \o sorted
    ELSE <<Head(sorted)>> \o InsertEvent(Tail(sorted), e)

RECURSIVE SortEvents(_)
SortEvents(es) ==
    IF es = <<>> THEN <<>>
    ELSE InsertEvent(SortEvents(SubSeq(es, 1, Len(es) - 1)), es[Len(es)])

MergedRegion(bs, be, trs, ors) ==
    [base_start |-> bs, base_end |-> be, theirs_ranges |-> trs, ours_ranges |-> ors]

\* should_merge for overlapping events only, not for touching ones
should_merge_strict(regions, event) ==
    regions /= <<>> /\ event.base_range.start < regions[Len(regions)].base_end

\* Overlapping or adjacent in base
should_merge(regions, event) ==
    regions /= <<>> /\ event.base_range.start <= regions[Len(regions)].base_end

MergeEvent(regions, event) ==
    IF should_merge(regions, event)
    THEN LET last == regions[Len(regions)]
         IN SubSeq(regions, 1, Len(regions) - 1) \o
            <<MergedRegion(last.base_start,
                           Max(last.base_end, event.base_range.end),
                           last.theirs_ranges \o event.theirs_range,
                           last.ours_ranges \o event.ours_range)>>
    ELSE regions \o
         <<MergedRegion(event.base_range.start, event.base_range.end,
                        event.theirs_range, event.ours_range)>>

RECURSIVE MergeEvents(_, _)
MergeEvents(regions, events) ==
    IF events = <<>> THEN regions
    ELSE MergeEvents(MergeEvent(regions, Head(events)), Tail(events))

merged_regions(t_hunks, o_hunks) ==
    MergeEvents(<<>>, SortEvents(CollectEvents(t_hunks, o_hunks)))

\* ------------------------------------------------------------------------
\* Coordinate mapping (theirs_changes / ours_changes, base_to_theirs)
\* ------------------------------------------------------------------------

\* ChangeOf with the operands of the subtraction exchanged
ChangeOf_swapped(h) ==
    [pos |-> h.base_rows.start,
     delta |-> RangeLen(h.base_rows) - RangeLen(h.source_rows)]

ChangeOf(h) ==
    [pos |-> h.base_rows.start,
     delta |-> RangeLen(h.source_rows) - RangeLen(h.base_rows)]

\* sort_by_key(|(pos, _)| *pos), stable
RECURSIVE InsertChange(_, _)
InsertChange(sorted, c) ==
    IF sorted = <<>> THEN <<c>>
    ELSE IF Head(sorted).pos > c.pos THEN <<c>> \o sorted
    ELSE <<Head(sorted)>> \o InsertChange(Tail(sorted), c)

RECURSIVE SortChanges(_)
SortChanges(cs) ==
    IF cs = <<>> THEN <<>>
    ELSE InsertChange(SortChanges(SubSeq(cs, 1, Len(cs) - 1)), cs[Len(cs)])

\* theirs_changes and ours_changes: one entry per Pending hunk of the side
side_changes(hunks) ==
    LET p == SelectSeq(hunks, IsPending)
    IN SortChanges([i \in 1..Len(p) |-> ChangeOf(p[i])])

\* the offset accumulated by the loop, which breaks at the first entry
\* whose position lies behind base_row
RECURSIVE ChangeOffset(_, _)
ChangeOffset(base_row, changes) ==
    IF changes = <<>> THEN 0
    ELSE IF Head(changes).pos <= base_row
         THEN Head(changes).delta + ChangeOffset(base_row, Tail(changes))
         ELSE 0

\* base_to_side without the accumulated offset
base_to_side_without_offset(base_row, changes) == Max(base_row, 0)

\* base_to_theirs and base_to_ours are the same function
base_to_side(base_row, changes) ==
    Max(base_row + ChangeOffset(base_row, changes), 0)

\* ------------------------------------------------------------------------
\* Padding (update_alignment_and_highlighting, second half)
\* ------------------------------------------------------------------------

saturating_sub(x, y) == IF x >= y THEN x - y ELSE 0

RangesLines(ranges) ==
    SumSeq([i \in 1..Len(ranges) |-> saturating_sub(ranges[i].end, ranges[i].start)])

region_base_lines(region) == saturating_sub(region.base_end, region.base_start)

\* region_theirs_lines counting no line for a side without tracked range
region_theirs_lines_untracked_zero(region) ==
    IF region.theirs_ranges = <<>> THEN 0
    ELSE RangesLines(region.theirs_ranges)

region_theirs_lines(region) ==
    IF region.theirs_ranges = <<>> THEN region_base_lines(region)
    ELSE RangesLines(region.theirs_ranges)

region_ours_lines(region) ==
    IF region.ours_ranges = <<>> THEN region_base_lines(region)
    ELSE RangesLines(region.ours_ranges)

region_max_lines(region) ==
    Max(Max(region_theirs_lines(region), region_ours_lines(region)),
        region_base_lines(region))

Padding(row, count) == [row |-> row, count |-> count]

\* RegionTheirsPadding placed at the end of the first tracked range
RegionTheirsPadding_first_range(region, theirs_changes) ==
    IF region_max_lines(region) /= 0
       /\ region_theirs_lines(region) < region_max_lines(region)
    THEN <<Padding(IF region.theirs_ranges /= <<>>
                   THEN region.theirs_ranges[1].end
                   ELSE base_to_side(region.base_end, theirs_changes),
                   region_max_lines(region) - region_theirs_lines(region))>>
    ELSE <<>>

\* the entry pushed to theirs_padding for one region, if any
RegionTheirsPadding(region, theirs_changes) ==
    IF region_max_lines(region) /= 0
       /\ region_theirs_lines(region) < region_max_lines(region)
    THEN <<Padding(IF region.theirs_ranges /= <<>>
                   THEN region.theirs_ranges[Len(region.theirs_ranges)].end
                   ELSE base_to_side(region.base_end, theirs_changes),
                   region_max_lines(region) - region_theirs_lines(region))>>
    ELSE <<>>

RegionBasePadding(region) ==
    IF region_max_lines(region) /= 0
       /\ region_base_lines(region) < region_max_lines(region)
    THEN <<[row |-> region.base_end,
            count |-> region_max_lines(region) - region_base_lines(region),
            is_theirs_color |-> region_theirs_lines(region) >= region_ours_lines(region)]>>
    ELSE <<>>

RegionOursPadding(region, ours_changes) ==
    IF region_max_lines(region) /= 0
       /\ region_ours_lines(region) < region_max_lines(region)
    THEN <<Padding(IF region.ours_ranges /= <<>>
                   THEN region.ours_ranges[Len(region.ours_ranges)].end
                   ELSE base_to_side(region.base_end, ours_changes),
                   region_max_lines(region) - region_ours_lines(region))>>
    ELSE <<>>

\* theirs_padding, base_padding and ours_padding after the loop over the
\* merged regions
paddings_of(t_hunks, o_hunks) ==
    LET rs == merged_regions(t_hunks, o_hunks)
        theirs_changes == side_changes(t_hunks)
        ours_changes == side_changes(o_hunks)
    IN [theirs_padding |->
            Concat([i \in 1..Len(rs) |-> RegionTheirsPadding(rs[i], theirs_changes)]),
        base_padding |->
            Concat([i \in 1..Len(rs) |-> RegionBasePadding(rs[i])]),
        ours_padding |->
            Concat([i \in 1..Len(rs) |-> RegionOursPadding(rs[i], ours_changes)])]

\* insert_padding_block_with_color: a block of line_count lines above the
\* row at_row.min(max_point.row) of the editor; none when line_count = 0
PaddingBlocks(paddings, editor_text) ==
    LET kept == SelectSeq(paddings, LAMBDA p : p.count /= 0)
    IN [i \in 1..Len(kept) |->
          [row |-> Min(kept[i].row, MaxPointRow(editor_text)),
           height |-> kept[i].count]]

\* ------------------------------------------------------------------------
\* apply_hunk_to_base
\* ------------------------------------------------------------------------

\* apply_hunk_to_base with an Added arm that inserts behind the row
apply_hunk_to_base_behind_row(base, hunk) ==
    LET max_row == MaxPointRow(base)
    IN IF hunk.kind = "Added"
       THEN LET insert_row == Min(hunk.base_rows.start + 1, max_row)
                insert_offset == RowOffset(base, insert_row)
                text_to_insert == IF EndsWithNL(hunk.text) THEN hunk.text
                                  ELSE hunk.text \o <<NL>>
            IN Edit(base, insert_offset, insert_offset, text_to_insert)
       ELSE IF hunk.kind = "Deleted"
       THEN base
       ELSE LET start_row == Min(hunk.base_rows.start, max_row)
                end_row == Min(hunk.base_rows.end, max_row + 1)
                start_offset == RowOffset(base, start_row)
                end_offset == IF end_row > max_row THEN Len(base)
                              ELSE RowOffset(base, end_row)
                text_to_insert == IF EndsWithNL(hunk.text) \/ end_row > max_row
                                  THEN hunk.text
                                  ELSE hunk.text \o <<NL>>
            IN Edit(base, start_offset, end_offset, text_to_insert)

\* apply_hunk_to_base with a Deleted arm that removes the base rows
apply_hunk_to_base_deleting(base, hunk) ==
    LET max_row == MaxPointRow(base)
    IN IF hunk.kind = "Added"
       THEN LET insert_row == Min(hunk.base_rows.start, max_row)
                insert_offset == RowOffset(base, insert_row)
                text_to_insert == IF EndsWithNL(hunk.text) THEN hunk.text
                                  ELSE hunk.text \o <<NL>>
            IN Edit(base, insert_offset, insert_offset, text_to_insert)
       ELSE LET start_row == Min(hunk.base_rows.start, max_row)
                end_row == Min(hunk.base_rows.end, max_row + 1)
                start_offset == RowOffset(base, start_row)
                end_offset == IF end_row > max_row THEN Len(base)
                              ELSE RowOffset(base, end_row)
                text_to_insert == IF hunk.kind = "Deleted" THEN <<>>
                                  ELSE IF EndsWithNL(hunk.text) \/ end_row > max_row
                                  THEN hunk.text
                                  ELSE hunk.text \o <<NL>>
            IN Edit(base, start_offset, end_offset, text_to_insert)

apply_hunk_to_base(base, hunk) ==
    LET max_row == MaxPointRow(base)
    IN IF hunk.kind = "Added"
       THEN LET insert_row == Min(hunk.base_rows.start, max_row)
                insert_offset == RowOffset(base, insert_row)
                text_to_insert == IF EndsWithNL(hunk.text) THEN hunk.text
                                  ELSE hunk.text \o <<NL>>
            IN Edit(base, insert_offset, insert_offset, text_to_insert)
       ELSE IF hunk.kind = "Deleted"
       THEN base
       ELSE LET start_row == Min(hunk.base_rows.start, max_row)
                end_row == Min(hunk.base_rows.end, max_row + 1)
                start_offset == RowOffset(base, start_row)
                end_offset == IF end_row > max_row THEN Len(base)
                              ELSE RowOffset(base, end_row)
                text_to_insert == IF EndsWithNL(hunk.text) \/ end_row > max_row
                                  THEN hunk.text
                                  ELSE hunk.text \o <<NL>>
            IN Edit(base, start_offset, end_offset, text_to_insert)

\* ------------------------------------------------------------------------
\* The editor
\* ------------------------------------------------------------------------

VARIABLES
    theirs_text,              \* text of theirs_buffer
    base_text,                \* text of base_buffer
    ours_text,                \* text of ours_buffer
    is_resolve_mode,
    theirs_hunks,
    ours_hunks,
    theirs_alignment_blocks,  \* padding blocks present in theirs_editor
    base_alignment_blocks,
    ours_alignment_blocks,
    close_emitted,            \* the handler that ran last emitted ItemEvent::CloseItem
    edits,                    \* number of direct edits typed so far
    last_op,                  \* the handler that ran last
    early_return,             \* it returned before doing anything
    old_text,                 \* SideBySideDiffView: text of old_buffer
    new_text,                 \* SideBySideDiffView: text of new_buffer
    left_alignment_blocks,    \* padding blocks present in left_editor
    right_alignment_blocks    \* padding blocks present in right_editor

buffers == <<theirs_text, base_text, ours_text>>
hunks == <<theirs_hunks, ours_hunks>>
blocks == <<theirs_alignment_blocks, base_alignment_blocks, ours_alignment_blocks>>
vars == <<theirs_text, base_text, ours_text, is_resolve_mode, theirs_hunks,
          ours_hunks, theirs_alignment_blocks, base_alignment_blocks,
          ours_alignment_blocks, close_emitted, edits, last_op, early_return,
          old_text, new_text, left_alignment_blocks, right_alignment_blocks>>

\* the state of the side-by-side diff view
side_by_side == <<old_text, new_text, left_alignment_blocks, right_alignment_blocks>>

\* no side-by-side diff view is open
NoSideBySide ==
    /\ old_text = <<>>
    /\ new_text = <<>>
    /\ left_alignment_blocks = <<>>
    /\ right_alignment_blocks = <<>>

\* clear_alignment_blocks that leaves the hunks whose status is not Pending
clear_alignment_blocks_keeping_processed(t_hunks, o_hunks) ==
    [theirs_hunks |-> SelectSeq(t_hunks, LAMBDA h : ~IsPending(h)),
     ours_hunks |-> SelectSeq(o_hunks, LAMBDA h : ~IsPending(h)),
     theirs_alignment_blocks |-> <<>>, base_alignment_blocks |-> <<>>,
     ours_alignment_blocks |-> <<>>]

\* clear_alignment_blocks: the tracked blocks are removed and both hunk
\* lists are cleared, whatever statuses they carried
clear_alignment_blocks(t_hunks, o_hunks) ==
    [theirs_hunks |-> <<>>, ours_hunks |-> <<>>,
     theirs_alignment_blocks |-> <<>>, base_alignment_blocks |-> <<>>,
     ours_alignment_blocks |-> <<>>]

\* update_alignment_and_highlighting: the editor state it leaves behind for
\* the hunk lists t_hunks, o_hunks it is entered with and the buffer texts
update_alignment_and_highlighting(t_hunks, o_hunks, base, theirs, ours) ==
    LET cleared == clear_alignment_blocks(t_hunks, o_hunks)
        th == cleared.theirs_hunks \o compute_diff_hunks(base, theirs, "Theirs")
        oh == cleared.ours_hunks \o compute_diff_hunks(base, ours, "Ours")
        ps == paddings_of(th, oh)
    IN [theirs_hunks |-> th,
        ours_hunks |-> oh,
        theirs_alignment_blocks |->
            cleared.theirs_alignment_blocks \o PaddingBlocks(ps.theirs_padding, theirs),
        base_alignment_blocks |->
            cleared.base_alignment_blocks \o PaddingBlocks(ps.base_padding, base),
        ours_alignment_blocks |->
            cleared.ours_alignment_blocks \o PaddingBlocks(ps.ours_padding, ours)]

Install(u) ==
    /\ theirs_hunks' = u.theirs_hunks
    /\ ours_hunks' = u.ours_hunks
    /\ theirs_alignment_blocks' = u.theirs_alignment_blocks
    /\ base_alignment_blocks' = u.base_alignment_blocks
    /\ ours_alignment_blocks' = u.ours_alignment_blocks

\* ThreeWayMergeEditor::new
Init ==
    /\ theirs_text \in Texts
    /\ base_text \in Texts
    /\ ours_text \in Texts
    /\ is_resolve_mode = FALSE
    /\ LET u == update_alignment_and_highlighting(<<>>, <<>>, base_text, theirs_text, ours_text)
       IN /\ theirs_hunks = u.theirs_hunks
          /\ ours_hunks = u.ours_hunks
          /\ theirs_alignment_blocks = u.theirs_alignment_blocks
          /\ base_alignment_blocks = u.base_alignment_blocks
          /\ ours_alignment_blocks = u.ours_alignment_blocks
    /\ close_emitted = FALSE
    /\ edits = 0
    /\ last_op = "new"
    /\ early_return = FALSE
    /\ NoSideBySide

\* get_pending with the index clamped to the last hunk instead of checked
get_pending_clamped(side_hunks, hunk_index) ==
    IF side_hunks /= <<>>
       /\ side_hunks[Min(hunk_index + 1, Len(side_hunks))].status = "Pending"
    THEN <<side_hunks[Min(hunk_index + 1, Len(side_hunks))]>>
    ELSE <<>>

\* self.<side>_hunks.get(hunk_index) with the guard status == Pending:
\* the hunk, or nothing
get_pending(side_hunks, hunk_index) ==
    IF hunk_index < Len(side_hunks) /\ side_hunks[hunk_index + 1].status = "Pending"
    THEN <<side_hunks[hunk_index + 1]>>
    ELSE <<>>

SetStatus(side_hunks, hunk_index, status) ==
    IF hunk_index < Len(side_hunks)
    THEN [side_hunks EXCEPT ![hunk_index + 1].status = status]
    ELSE side_hunks

accept_theirs_hunk(hunk_index) ==
    /\ last_op' = "accept_theirs_hunk"
    /\ LET got == get_pending(theirs_hunks, hunk_index)
       IN IF got = <<>>
          THEN early_return' = TRUE /\ UNCHANGED <<base_text, hunks, blocks>>
          ELSE /\ early_return' = FALSE
               /\ base_text' = apply_hunk_to_base(base_text, got[1])
               /\ Len(DiffLines(base_text')) <= MaxBaseLines
               /\ Install(update_alignment_and_highlighting(
                              SetStatus(theirs_hunks, hunk_index, "Accepted"),
                              ours_hunks, base_text', theirs_text, ours_text))
    /\ close_emitted' = FALSE
    /\ UNCHANGED <<theirs_text, ours_text, is_resolve_mode, edits>>
    /\ UNCHANGED side_by_side

accept_ours_hunk(hunk_index) ==
    /\ last_op' = "accept_ours_hunk"
    /\ LET got == get_pending(ours_hunks, hunk_index)
       IN IF got = <<>>
          THEN early_return' = TRUE /\ UNCHANGED <<base_text, hunks, blocks>>
          ELSE /\ early_return' = FALSE
               /\ base_text' = apply_hunk_to_base(base_text, got[1])
               /\ Len(DiffLines(base_text')) <= MaxBaseLines
               /\ Install(update_alignment_and_highlighting(
                              theirs_hunks,
                              SetStatus(ours_hunks, hunk_index, "Accepted"),
                              base_text', theirs_text, ours_text))
    /\ close_emitted' = FALSE
    /\ UNCHANGED <<theirs_text, ours_text, is_resolve_mode, edits>>
    /\ UNCHANGED side_by_side

\* ignore_theirs_hunk applying the hunk to the base buffer as an accept does
ignore_theirs_hunk_applying(hunk_index) ==
    /\ last_op' = "ignore_theirs_hunk"
    /\ early_return' = ~(hunk_index < Len(theirs_hunks))
    /\ IF hunk_index < Len(theirs_hunks)
       THEN /\ base_text' = apply_hunk_to_base(base_text, theirs_hunks[hunk_index + 1])
            /\ Len(DiffLines(base_text')) <= MaxBaseLines
            /\ Install(update_alignment_and_highlighting(
                           SetStatus(theirs_hunks, hunk_index, "Ignored"),
                           ours_hunks, base_text', theirs_text, ours_text))
       ELSE UNCHANGED <<base_text, hunks, blocks>>
    /\ close_emitted' = FALSE
    /\ UNCHANGED <<theirs_text, ours_text, is_resolve_mode, edits>>
    /\ UNCHANGED side_by_side

ignore_theirs_hunk(hunk_index) ==
    /\ last_op' = "ignore_theirs_hunk"
    /\ early_return' = ~(hunk_index < Len(theirs_hunks))
    /\ IF hunk_index < Len(theirs_hunks)
       THEN Install(update_alignment_and_highlighting(
                        SetStatus(theirs_hunks, hunk_index, "Ignored"),
                        ours_hunks, base_text, theirs_text, ours_text))
       ELSE UNCHANGED <<hunks, blocks>>
    /\ close_emitted' = FALSE
    /\ UNCHANGED <<buffers, is_resolve_mode, edits>>
    /\ UNCHANGED side_by_side

ignore_ours_hunk(hunk_index) ==
    /\ last_op' = "ignore_ours_hunk"
    /\ early_return' = ~(hunk_index < Len(ours_hunks))
    /\ IF hunk_index < Len(ours_hunks)
       THEN Install(update_alignment_and_highlighting(
                        theirs_hunks,
                        SetStatus(ours_hunks, hunk_index, "Ignored"),
                        base_text, theirs_text, ours_text))
       ELSE UNCHANGED <<hunks, blocks>>
    /\ close_emitted' = FALSE
    /\ UNCHANGED <<buffers, is_resolve_mode, edits>>
    /\ UNCHANGED side_by_side

AcceptAll(side_hunks) ==
    [i \in 1..Len(side_hunks) |->
        IF side_hunks[i].status = "Pending"
        THEN [side_hunks[i] EXCEPT !.status = "Accepted"]
        ELSE side_hunks[i]]

accept_all_theirs ==
    /\ last_op' = "accept_all_theirs"
    /\ early_return' = FALSE
    /\ Install(update_alignment_and_highlighting(
                   AcceptAll(theirs_hunks), ours_hunks,
                   base_text, theirs_text, ours_text))
    /\ close_emitted' = FALSE
    /\ UNCHANGED <<buffers, is_resolve_mode, edits>>
    /\ UNCHANGED side_by_side

accept_all_ours ==
    /\ last_op' = "accept_all_ours"
    /\ early_return' = FALSE
    /\ Install(update_alignment_and_highlighting(
                   theirs_hunks, AcceptAll(ours_hunks),
                   base_text, theirs_text, ours_text))
    /\ close_emitted' = FALSE
    /\ UNCHANGED <<buffers, is_resolve_mode, edits>>
    /\ UNCHANGED side_by_side

all_hunks_processed(t_hunks, o_hunks) ==
    /\ \A i \in 1..Len(t_hunks) : t_hunks[i].status /= "Pending"
    /\ \A i \in 1..Len(o_hunks) : o_hunks[i].status /= "Pending"

\* mark_as_resolved without the all_hunks_processed check
mark_as_resolved_unguarded ==
    /\ last_op' = "mark_as_resolved"
    /\ early_return' = FALSE
    /\ close_emitted' = TRUE
    /\ UNCHANGED <<buffers, is_resolve_mode, hunks, blocks, edits>>
    /\ UNCHANGED side_by_side

mark_as_resolved ==
    /\ last_op' = "mark_as_resolved"
    /\ early_return' = FALSE
    /\ close_emitted' = all_hunks_processed(theirs_hunks, ours_hunks)
    /\ UNCHANGED <<buffers, is_resolve_mode, hunks, blocks, edits>>
    /\ UNCHANGED side_by_side

toggle_resolve_mode ==
    /\ last_op' = "toggle_resolve_mode"
    /\ early_return' = FALSE
    /\ is_resolve_mode' = ~is_resolve_mode
    /\ close_emitted' = FALSE
    /\ UNCHANGED <<buffers, hunks, blocks, edits>>
    /\ UNCHANGED side_by_side

\* the texts a direct edit can leave in the base buffer
EditTexts == {t \in Texts : Len(DiffLines(t)) <= MaxEditLines}

\* typing in the base editor, which is editable in Resolve View only; no
\* handler of the merge editor runs on it
edit_base(typed_text) ==
    /\ is_resolve_mode
    /\ edits < MaxEdits
    /\ typed_text /= base_text
    /\ last_op' = "edit_base"
    /\ early_return' = FALSE
    /\ base_text' = typed_text
    /\ edits' = edits + 1
    /\ close_emitted' = FALSE
    /\ UNCHANGED <<theirs_text, ours_text, is_resolve_mode, hunks, blocks>>
    /\ UNCHANGED side_by_side

Next ==
    \/ \E i \in 0..Len(theirs_hunks) : accept_theirs_hunk(i)
    \/ \E i \in 0..Len(ours_hunks) : accept_ours_hunk(i)
    \/ \E i \in 0..Len(theirs_hunks) : ignore_theirs_hunk(i)
    \/ \E i \in 0..Len(ours_hunks) : ignore_ours_hunk(i)
    \/ accept_all_theirs
    \/ accept_all_ours
    \/ mark_as_resolved
    \/ toggle_resolve_mode
    \/ \E t \in EditTexts : edit_base(t)

Spec == Init /\ [][Next]_vars

\* ------------------------------------------------------------------------
\* The editor opened on longer texts with ours equal to base, and the
\* per-hunk handlers only
\* ------------------------------------------------------------------------

DiffTexts == TextsUpTo(MaxDiffLines)

InitDiff ==
    /\ theirs_text \in DiffTexts
    /\ base_text \in DiffTexts
    /\ ours_text = base_text
    /\ is_resolve_mode = FALSE
    /\ LET u == update_alignment_and_highlighting(<<>>, <<>>, base_text, theirs_text, ours_text)
       IN /\ theirs_hunks = u.theirs_hunks
          /\ ours_hunks = u.ours_hunks
          /\ theirs_alignment_blocks = u.theirs_alignment_blocks
          /\ base_alignment_blocks = u.base_alignment_blocks
          /\ ours_alignment_blocks = u.ours_alignment_blocks
    /\ close_emitted = FALSE
    /\ edits = 0
    /\ last_op = "new"
    /\ early_return = FALSE
    /\ NoSideBySide

NextDiff ==
    \/ \E i \in 0..Len(theirs_hunks) : accept_theirs_hunk(i)
    \/ \E i \in 0..Len(theirs_hunks) : ignore_theirs_hunk(i)

SpecDiff == InitDiff /\ [][NextDiff]_vars

\* ------------------------------------------------------------------------
\* The editor opened on the texts "1\n2\n3", "1\nT\n3" and "1\n2\n3\nO",
\* each with or without a terminator of its last line
\* ------------------------------------------------------------------------

ScenarioBase(trailing) == TextOf(<<"1", "2", "3">>, trailing)
ScenarioTheirs(trailing) == TextOf(<<"1", "T", "3">>, trailing)
ScenarioOurs(trailing) == TextOf(<<"1", "2", "3", "O">>, trailing)

InitScenario ==
    /\ theirs_text \in {ScenarioTheirs(t) : t \in BOOLEAN}
    /\ base_text \in {ScenarioBase(t) : t \in BOOLEAN}
    /\ ours_text \in {ScenarioOurs(t) : t \in BOOLEAN}
    /\ is_resolve_mode = FALSE
    /\ LET u == update_alignment_and_highlighting(<<>>, <<>>, base_text, theirs_text, ours_text)
       IN /\ theirs_hunks = u.theirs_hunks
          /\ ours_hunks = u.ours_hunks
          /\ theirs_alignment_blocks = u.theirs_alignment_blocks
          /\ base_alignment_blocks = u.base_alignment_blocks
          /\ ours_alignment_blocks = u.ours_alignment_blocks
    /\ close_emitted = FALSE
    /\ edits = 0
    /\ last_op = "new"
    /\ early_return = FALSE
    /\ NoSideBySide

SpecScenario == InitScenario /\ [][Next]_vars

\* ------------------------------------------------------------------------
\* The editor opened on three texts of up to MaxAlignLines lines, and the
\* ignore handlers only
\* ------------------------------------------------------------------------

AlignTexts == TextsUpTo(MaxAlignLines)

InitAlign ==
    /\ theirs_text \in AlignTexts
    /\ base_text \in AlignTexts
    /\ ours_text \in AlignTexts
    /\ is_resolve_mode = FALSE
    /\ LET u == update_alignment_and_highlighting(<<>>, <<>>, base_text, theirs_text, ours_text)
       IN /\ theirs_hunks = u.theirs_hunks
          /\ ours_hunks = u.ours_hunks
          /\ theirs_alignment_blocks = u.theirs_alignment_blocks
          /\ base_alignment_blocks = u.base_alignment_blocks
          /\ ours_alignment_blocks = u.ours_alignment_blocks
    /\ close_emitted = FALSE
    /\ edits = 0
    /\ last_op = "new"
    /\ early_return = FALSE
    /\ NoSideBySide

NextAlign ==
    \/ \E i \in 0..Len(theirs_hunks) : ignore_theirs_hunk(i)
    \/ \E i \in 0..Len(ours_hunks) : ignore_ours_hunk(i)

SpecAlign == InitAlign /\ [][NextAlign]_vars

\* ------------------------------------------------------------------------
\* SideBySideDiffView
\* ------------------------------------------------------------------------

\* byte offset at which the line starts (the text length when the text has
\* fewer lines)
LineOffset(t, line) ==
    LET ls == DiffLines(t)
    IN SumSeq([k \in 1..Min(line, Len(ls)) |-> Len(ls[k])])

DiffHunkStatusKind == {"Added", "Deleted", "Modified"}

\* a hunk of the BufferDiff as the view reads it: status().kind, the rows of
\* range in the new buffer and diff_base_byte_range in the base text
DiffHunk(kind, range, diff_base_byte_range) ==
    [kind |-> kind, range |-> range, diff_base_byte_range |-> diff_base_byte_range]

DiffHunkOfOp(op, base) ==
    DiffHunk(IF op.tag = "Delete" THEN "Deleted"
             ELSE IF op.tag = "Insert" THEN "Added" ELSE "Modified",
             Range(op.new_index, op.new_index + op.new_len),
             Range(LineOffset(base, op.old_index),
                   LineOffset(base, op.old_index + op.old_len)))

\* diff_snapshot.hunks(&new_buffer_snapshot)
DiffSnapshotHunks(base, new) ==
    LET ops == SelectSeq(DiffOps(base, new), SelectNotEqual)
    IN [i \in 1..Len(ops) |-> DiffHunkOfOp(ops[i], base)]

count_lines_in_range(base, start_byte, end_byte) ==
    IF start_byte >= end_byte \/ start_byte >= Len(base) THEN 0
    ELSE LET text == SubSeq(base, start_byte + 1, Min(end_byte, Len(base)))
         IN IF text = <<>> THEN 0
            ELSE IF EndsWithNL(text) THEN MaxPointRow(text)
            ELSE MaxPointRow(text) + 1

byte_to_line(base, byte_offset) ==
    IF byte_offset = 0 THEN 0
    ELSE MaxPointRow(SubSeq(base, 1, Min(byte_offset, Len(base))))

new_count_of(hunk) == saturating_sub(hunk.range.end, hunk.range.start)
old_start_of(hunk, base) == byte_to_line(base, hunk.diff_base_byte_range.start)
old_count_of(hunk, base) ==
    count_lines_in_range(base, hunk.diff_base_byte_range.start,
                         hunk.diff_base_byte_range.end)

\* left padding of an Added hunk anchored one row too low
left_padding_op_below(hunk, base) ==
    LET new_count == new_count_of(hunk)
        old_start == old_start_of(hunk, base)
        old_count == old_count_of(hunk, base)
    IN IF hunk.kind = "Added"
       THEN IF new_count > 0 THEN <<Padding(old_start + 1, new_count)>> ELSE <<>>
       ELSE IF hunk.kind = "Modified" /\ new_count > old_count
       THEN <<Padding(old_start + old_count, new_count - old_count)>>
       ELSE <<>>

\* what one hunk pushes to left_padding_ops
left_padding_op(hunk, base) ==
    LET new_count == new_count_of(hunk)
        old_start == old_start_of(hunk, base)
        old_count == old_count_of(hunk, base)
    IN IF hunk.kind = "Added"
       THEN IF new_count > 0 THEN <<Padding(old_start, new_count)>> ELSE <<>>
       ELSE IF hunk.kind = "Modified" /\ new_count > old_count
       THEN <<Padding(old_start + old_count, new_count - old_count)>>
       ELSE <<>>

\* what one hunk pushes to right_padding_ops
right_padding_op(hunk, base) ==
    LET new_count == new_count_of(hunk)
        old_count == old_count_of(hunk, base)
    IN IF hunk.kind = "Deleted"
       THEN IF old_count > 0 THEN <<Padding(hunk.range.start, old_count)>> ELSE <<>>
       ELSE IF hunk.kind = "Modified" /\ old_count > new_count
       THEN <<Padding(hunk.range.end, old_count - new_count)>>
       ELSE <<>>

left_padding_ops(diff_hunks, base) ==
    Concat([i \in 1..Len(diff_hunks) |-> left_padding_op(diff_hunks[i], base)])

right_padding_ops(diff_hunks, base) ==
    Concat([i \in 1..Len(diff_hunks) |-> right_padding_op(diff_hunks[i], base)])

\* insert_padding_block_inner for every padding op of one editor: a block
\* above the row, which is clamped to the last row of the editor
insert_padding_block_inner(padding_ops, editor_text) ==
    LET kept == SelectSeq(padding_ops, LAMBDA p : p.count /= 0)
    IN [i \in 1..Len(kept) |->
          [row |-> Min(kept[i].row, MaxPointRow(editor_text)),
           height |-> kept[i].count]]

\* SideBySide_clear_alignment_blocks that removes no block
SideBySide_clear_alignment_blocks_removing_none(left_blocks, right_blocks) ==
    [left_alignment_blocks |-> left_blocks, right_alignment_blocks |-> right_blocks]

\* SideBySideDiffView::clear_alignment_blocks
SideBySide_clear_alignment_blocks(left_blocks, right_blocks) ==
    [left_alignment_blocks |-> <<>>, right_alignment_blocks |-> <<>>]

\* SideBySideDiffView::update_alignment_and_highlighting
SideBySide_update_alignment_and_highlighting(left_blocks, right_blocks, old, new) ==
    LET cleared == SideBySide_clear_alignment_blocks(left_blocks, right_blocks)
        diff_hunks == DiffSnapshotHunks(old, new)
    IN [left_alignment_blocks |->
            cleared.left_alignment_blocks
            \o insert_padding_block_inner(left_padding_ops(diff_hunks, old), old),
        right_alignment_blocks |->
            cleared.right_alignment_blocks
            \o insert_padding_block_inner(right_padding_ops(diff_hunks, old), new)]

\* no three-way merge editor is open
NoThreeWay ==
    /\ theirs_text = <<>> /\ base_text = <<>> /\ ours_text = <<>>
    /\ is_resolve_mode = FALSE
    /\ theirs_hunks = <<>> /\ ours_hunks = <<>>
    /\ theirs_alignment_blocks = <<>>
    /\ base_alignment_blocks = <<>>
    /\ ours_alignment_blocks = <<>>
    /\ close_emitted = FALSE
    /\ edits = 0
    /\ early_return = FALSE

three_way == <<buffers, is_resolve_mode, hunks, blocks, close_emitted, edits, early_return>>

\* SideBySideDiffView::new
InitSideBySide ==
    /\ NoThreeWay
    /\ last_op = "new"
    /\ old_text \in DiffTexts
    /\ new_text \in DiffTexts
    /\ LET u == SideBySide_update_alignment_and_highlighting(<<>>, <<>>, old_text, new_text)
       IN /\ left_alignment_blocks = u.left_alignment_blocks
          /\ right_alignment_blocks = u.right_alignment_blocks

\* the new buffer is edited in the right editor; the BufferDiff recomputes
\* and its DiffChanged event runs update_alignment_and_highlighting
diff_changed(typed_text) ==
    /\ typed_text /= new_text
    /\ last_op' = "diff_changed"
    /\ new_text' = typed_text
    /\ LET u == SideBySide_update_alignment_and_highlighting(
                    left_alignment_blocks, right_alignment_blocks, old_text, typed_text)
       IN /\ left_alignment_blocks' = u.left_alignment_blocks
          /\ right_alignment_blocks' = u.right_alignment_blocks
    /\ UNCHANGED <<old_text, three_way>>

NextSideBySide == \E t \in DiffTexts : diff_changed(t)

SpecSideBySide == InitSideBySide /\ [][NextSideBySide]_vars

\* ------------------------------------------------------------------------
\* A three-way merge editor and a side-by-side diff view open together, on
\* texts of up to MaxBlockLines lines, with the handlers that run a
\* recomputation pass
\* ------------------------------------------------------------------------

BlockTexts == TextsUpTo(MaxBlockLines)

InitBlocks ==
    /\ theirs_text \in BlockTexts
    /\ base_text \in BlockTexts
    /\ ours_text \in BlockTexts
    /\ is_resolve_mode = FALSE
    /\ LET u == update_alignment_and_highlighting(<<>>, <<>>, base_text, theirs_text, ours_text)
       IN /\ theirs_hunks = u.theirs_hunks
          /\ ours_hunks = u.ours_hunks
          /\ theirs_alignment_blocks = u.theirs_alignment_blocks
          /\ base_alignment_blocks = u.base_alignment_blocks
          /\ ours_alignment_blocks = u.ours_alignment_blocks
    /\ close_emitted = FALSE
    /\ edits = 0
    /\ last_op = "new"
    /\ early_return = FALSE
    /\ old_text \in BlockTexts
    /\ new_text \in BlockTexts
    /\ LET u == SideBySide_update_alignment_and_highlighting(<<>>, <<>>, old_text, new_text)
       IN /\ left_alignment_blocks = u.left_alignment_blocks
          /\ right_alignment_blocks = u.right_alignment_blocks

NextBlocks ==
    \/ \E i \in 0..Len(theirs_hunks) : accept_theirs_hunk(i)
    \/ \E i \in 0..Len(ours_hunks) : accept_ours_hunk(i)
    \/ \E i \in 0..Len(theirs_hunks) : ignore_theirs_hunk(i)
    \/ \E i \in 0..Len(ours_hunks) : ignore_ours_hunk(i)
    \/ \E t \in BlockTexts : diff_changed(t)

SpecBlocks == InitBlocks /\ [][NextBlocks]_vars

\* ------------------------------------------------------------------------
\* Properties
\* ------------------------------------------------------------------------

LineCount(t) == Len(DiffLines(t))

PendingCount(side_hunks) == Len(SelectSeq(side_hunks, IsPending))

\* both hunk lists are the diff of the current base text
HunksFresh ==
    /\ theirs_hunks = compute_diff_hunks(base_text, theirs_text, "Theirs")
    /\ ours_hunks = compute_diff_hunks(base_text, ours_text, "Ours")

\* the Pending hunks of one side whose base rows lie in the region
RegionMembers(side_hunks, region) ==
    SelectSeq(side_hunks,
              LAMBDA h : /\ IsPending(h)
                         /\ region.base_start <= h.base_rows.start
                         /\ h.base_rows.end <= region.base_end)

\* the lines of a side panel that correspond to the base range of the
\* region: its unchanged base rows and the source rows of its hunks
PanelLines(side_hunks, region) ==
    LET ms == RegionMembers(side_hunks, region)
    IN region_base_lines(region)
       - SumSeq([k \in 1..Len(ms) |-> RangeLen(ms[k].base_rows)])
       + SumSeq([k \in 1..Len(ms) |-> RangeLen(ms[k].source_rows)])

PaddingLines(paddings) == SumSeq([k \in 1..Len(paddings) |-> paddings[k].count])

\* C1: in every merged region the three panels show the same number of
\* lines, own lines plus padding, and that number is max_lines.
C1_ThreeWayAlignment ==
    LET rs == merged_regions(theirs_hunks, ours_hunks)
    IN \A k \in 1..Len(rs) :
        /\ PanelLines(theirs_hunks, rs[k])
             + PaddingLines(RegionTheirsPadding(rs[k], side_changes(theirs_hunks)))
           = region_max_lines(rs[k])
        /\ region_base_lines(rs[k]) + PaddingLines(RegionBasePadding(rs[k]))
           = region_max_lines(rs[k])
        /\ PanelLines(ours_hunks, rs[k])
             + PaddingLines(RegionOursPadding(rs[k], side_changes(ours_hunks)))
           = region_max_lines(rs[k])

\* C2: accepting a Pending hunk of a freshly computed list leaves that
\* side with one hunk fewer after the recomputation.
C2_AcceptRemovesHunk ==
    [][/\ \A i \in 0..Len(theirs_hunks) :
            (HunksFresh /\ get_pending(theirs_hunks, i) /= <<>> /\ accept_theirs_hunk(i))
            => Len(theirs_hunks') = Len(theirs_hunks) - 1
       /\ \A i \in 0..Len(ours_hunks) :
            (HunksFresh /\ get_pending(ours_hunks, i) /= <<>> /\ accept_ours_hunk(i))
            => Len(ours_hunks') = Len(ours_hunks) - 1]_vars

RECURSIVE ApplyAll(_, _)
ApplyAll(text, side_hunks) ==
    IF side_hunks = <<>> THEN text
    ELSE ApplyAll(apply_hunk_to_base(text, Head(side_hunks)), Tail(side_hunks))

\* C3: applying every hunk of the diff of old against new to old, in
\* order, gives new.
C3_RoundTrip ==
    ApplyAll(base_text, compute_diff_hunks(base_text, theirs_text, "Theirs")) = theirs_text

\* C4: ignoring a Pending hunk lowers the pending count of its side by one.
C4_IgnoreTerminal ==
    [][/\ \A i \in 0..Len(theirs_hunks) :
            (get_pending(theirs_hunks, i) /= <<>> /\ ignore_theirs_hunk(i))
            => PendingCount(theirs_hunks') = PendingCount(theirs_hunks) - 1
       /\ \A i \in 0..Len(ours_hunks) :
            (get_pending(ours_hunks, i) /= <<>> /\ ignore_ours_hunk(i))
            => PendingCount(ours_hunks') = PendingCount(ours_hunks) - 1]_vars

\* C5: when the user accepts or ignores the only hunk the editor still
\* presents, all_hunks_processed is true afterwards.
C5_ResolutionReachable ==
    [][/\ \A i \in 0..Len(theirs_hunks) :
            (/\ HunksFresh
             /\ PendingCount(theirs_hunks) + PendingCount(ours_hunks) = 1
             /\ get_pending(theirs_hunks, i) /= <<>>
             /\ (accept_theirs_hunk(i) \/ ignore_theirs_hunk(i)))
            => all_hunks_processed(theirs_hunks', ours_hunks')
       /\ \A i \in 0..Len(ours_hunks) :
            (/\ HunksFresh
             /\ PendingCount(theirs_hunks) + PendingCount(ours_hunks) = 1
             /\ get_pending(ours_hunks, i) /= <<>>
             /\ (accept_ours_hunk(i) \/ ignore_ours_hunk(i)))
            => all_hunks_processed(theirs_hunks', ours_hunks')]_vars

\* C6: the close event is emitted only by mark_as_resolved and only when no
\* hunk is Pending; mark_as_resolved emits nothing otherwise and never
\* changes a hunk, a block or a buffer text.
C6_MarkAsResolvedGuarded ==
    [][/\ close_emitted' =>
            /\ last_op' = "mark_as_resolved"
            /\ all_hunks_processed(theirs_hunks, ours_hunks)
       /\ last_op' = "mark_as_resolved" =>
            /\ UNCHANGED <<buffers, hunks, blocks, is_resolve_mode>>
            /\ close_emitted' = all_hunks_processed(theirs_hunks, ours_hunks)]_vars

\* mark_as_resolved has emitted the close event
C6_Witness ==
    /\ last_op = "mark_as_resolved"
    /\ close_emitted

MapRows == 0..(MaxBaseLines + 1)

MapMonotoneOn(rows, changes) ==
    \A r1 \in rows : \A r2 \in rows :
        r1 <= r2 => base_to_side(r1, changes) <= base_to_side(r2, changes)

\* the base row lies in the base_rows of no Pending hunk of the side
OutsideHunks(side_hunks, row) ==
    \A k \in 1..Len(side_hunks) :
        ~(/\ IsPending(side_hunks[k])
          /\ side_hunks[k].base_rows.start <= row
          /\ row < side_hunks[k].base_rows.end)

\* C7 as stated: the base-to-side mapping is non-decreasing over all base rows.
C7_MapMonotone ==
    /\ MapMonotoneOn(MapRows, side_changes(theirs_hunks))
    /\ MapMonotoneOn(MapRows, side_changes(ours_hunks))

\* C7 amended: the base-to-side mapping is non-decreasing over the base
\* rows that lie in the base_rows of no Pending hunk of that side.
C7_MapMonotoneOutsideHunks ==
    /\ MapMonotoneOn({r \in MapRows : OutsideHunks(theirs_hunks, r)},
                     side_changes(theirs_hunks))
    /\ MapMonotoneOn({r \in MapRows : OutsideHunks(ours_hunks, r)},
                     side_changes(ours_hunks))

\* a theirs hunk removes two lines more than it adds, behind a base row
\* that maps to a row above 0
C7_Witness ==
    \E k \in 1..Len(theirs_hunks) :
        /\ IsPending(theirs_hunks[k])
        /\ ChangeOf(theirs_hunks[k]).delta <= -2
        /\ theirs_hunks[k].base_rows.start >= 2
        /\ OutsideHunks(theirs_hunks, theirs_hunks[k].base_rows.start - 1)
        /\ OutsideHunks(theirs_hunks, theirs_hunks[k].base_rows.end)

\* C8: the stored hunk lists are the diff of the current base text.
C8_HunksDescribeBase == HunksFresh

\* C9: accepting a Pending hunk whose base_rows ends behind the last line
\* of the base buffer leaves the base text unchanged.
C9_StaleApplyRejected ==
    [][/\ \A i \in 0..Len(theirs_hunks) :
            (/\ get_pending(theirs_hunks, i) /= <<>>
             /\ theirs_hunks[i + 1].base_rows.end > LineCount(base_text)
             /\ accept_theirs_hunk(i))
            => base_text' = base_text
       /\ \A i \in 0..Len(ours_hunks) :
            (/\ get_pending(ours_hunks, i) /= <<>>
             /\ ours_hunks[i + 1].base_rows.end > LineCount(base_text)
             /\ accept_ours_hunk(i))
            => base_text' = base_text]_vars

\* the index names no hunk, or a hunk that is not Pending
Rejected(side_hunks, hunk_index) ==
    \/ hunk_index >= Len(side_hunks)
    \/ side_hunks[hunk_index + 1].status /= "Pending"

\* C10: an accept with an index that is out of range or names a hunk that
\* is not Pending changes no buffer text, no hunk list and no padding block.
C10_RejectedAcceptEditsNothing ==
    [][/\ \A i \in 0..Len(theirs_hunks) :
            (Rejected(theirs_hunks, i) /\ accept_theirs_hunk(i))
            => UNCHANGED <<buffers, hunks, blocks>>
       /\ \A i \in 0..Len(ours_hunks) :
            (Rejected(ours_hunks, i) /\ accept_ours_hunk(i))
            => UNCHANGED <<buffers, hunks, blocks>>]_vars

\* an accept returned early although its side has hunks
C10_Witness ==
    \/ last_op = "accept_theirs_hunk" /\ early_return /\ theirs_hunks /= <<>>
    \/ last_op = "accept_ours_hunk" /\ early_return /\ ours_hunks /= <<>>

\* the hunk that stood at the index before the step stands there unchanged,
\* still Pending, after it
SameHunkStillPending(side_hunks, side_hunks_after, hunk_index) ==
    /\ hunk_index < Len(side_hunks_after)
    /\ side_hunks_after[hunk_index + 1] = side_hunks[hunk_index + 1]

\* C11: after a Pending Deleted hunk has been accepted, that hunk is no
\* longer Pending, so that a second accept of it is refused.
C11_SecondApplyRefused ==
    [][/\ \A i \in 0..Len(theirs_hunks) :
            (/\ get_pending(theirs_hunks, i) /= <<>>
             /\ theirs_hunks[i + 1].kind = "Deleted"
             /\ accept_theirs_hunk(i))
            => ~SameHunkStillPending(theirs_hunks, theirs_hunks', i)
       /\ \A i \in 0..Len(ours_hunks) :
            (/\ get_pending(ours_hunks, i) /= <<>>
             /\ ours_hunks[i + 1].kind = "Deleted"
             /\ accept_ours_hunk(i))
            => ~SameHunkStillPending(ours_hunks, ours_hunks', i)]_vars

\* C12: in Read View no step changes the text of the base buffer.
C12_ReadViewKeepsBase ==
    [][~is_resolve_mode => base_text' = base_text]_vars

InRange(row, range) == range.start <= row /\ row < range.end

IsEqualOp(op) == op.tag = "Equal"

\* the number of hunks and Equal operations of the diff whose base rows
\* hold the row
CoverCount(old, new, row) ==
    LET hs == compute_diff_hunks(old, new, "Theirs")
        eqs == SelectSeq(DiffOps(old, new), IsEqualOp)
    IN Cardinality({k \in 1..Len(hs) : InRange(row, hs[k].base_rows)})
       + Cardinality({k \in 1..Len(eqs) :
                        InRange(row, Range(eqs[k].old_index,
                                           eqs[k].old_index + eqs[k].old_len))})

\* C13: the base rows of the hunks and of the Equal operations of the diff
\* of base against theirs partition [0, base_line_count): every base row
\* lies in exactly one of them, no range ends behind the last line, and the
\* hunks' base rows are disjoint and ascending.
C13_Coverage ==
    LET hs == compute_diff_hunks(base_text, theirs_text, "Theirs")
        eqs == SelectSeq(DiffOps(base_text, theirs_text), IsEqualOp)
        n == LineCount(base_text)
    IN /\ \A r \in 0..(n - 1) : CoverCount(base_text, theirs_text, r) = 1
       /\ \A k \in 1..Len(hs) :
            hs[k].base_rows.start <= hs[k].base_rows.end /\ hs[k].base_rows.end <= n
       /\ \A k \in 1..Len(eqs) : eqs[k].old_index + eqs[k].old_len <= n
       /\ \A k \in 1..(Len(hs) - 1) : hs[k].base_rows.end <= hs[k + 1].base_rows.start

\* the diff has two hunks that take base rows, with Equal rows besides
C13_Witness ==
    LET hs == compute_diff_hunks(base_text, theirs_text, "Theirs")
    IN /\ Cardinality({k \in 1..Len(hs) : RangeLen(hs[k].base_rows) >= 1}) >= 2
       /\ \E op \in {DiffOps(base_text, theirs_text)[k] :
                       k \in 1..Len(DiffOps(base_text, theirs_text))} : IsEqualOp(op)

\* C14: the diff of a text against itself has no hunk, and the alignment
\* pass over three equal texts stores no hunk, builds no region and places
\* no padding block.
C14_Idempotence ==
    /\ compute_diff_hunks(base_text, base_text, "Theirs") = <<>>
    /\ compute_diff_hunks(theirs_text, theirs_text, "Ours") = <<>>
    /\ LET u == update_alignment_and_highlighting(theirs_hunks, ours_hunks,
                                                  base_text, base_text, base_text)
       IN /\ u.theirs_hunks = <<>> /\ u.ours_hunks = <<>>
          /\ merged_regions(u.theirs_hunks, u.ours_hunks) = <<>>
          /\ u.theirs_alignment_blocks = <<>>
          /\ u.base_alignment_blocks = <<>>
          /\ u.ours_alignment_blocks = <<>>

\* a text of three lines or more, two of them equal, is diffed against itself
C14_Witness ==
    LET ls == DiffLines(base_text)
    IN /\ Len(ls) >= 3
       /\ \E i \in 1..Len(ls) : \E j \in 1..Len(ls) : i /= j /\ ls[i] = ls[j]

\* the display row of a buffer row: the row plus the heights of the padding
\* blocks placed above it or above an earlier row
DisplayRow(editor_blocks, row) ==
    row + SumSeq([k \in 1..Len(editor_blocks) |->
                    IF editor_blocks[k].row <= row THEN editor_blocks[k].height ELSE 0])

\* C15: in the side-by-side view every pair of matching (unchanged) lines
\* has the same display row in the left and in the right editor.
C15_SideBySideAlignment ==
    LET ops == DiffOps(old_text, new_text)
    IN \A k \in 1..Len(ops) :
         IsEqualOp(ops[k]) =>
            \A d \in 0..(ops[k].old_len - 1) :
               DisplayRow(left_alignment_blocks, ops[k].old_index + d)
               = DisplayRow(right_alignment_blocks, ops[k].new_index + d)

\* after an edit of the new buffer an unchanged line stands below padding
\* in both editors
C15_Witness ==
    /\ last_op = "diff_changed"
    /\ left_alignment_blocks /= <<>>
    /\ right_alignment_blocks /= <<>>
    /\ LET ops == DiffOps(old_text, new_text)
       IN \E k \in 1..Len(ops) :
            /\ IsEqualOp(ops[k])
            /\ DisplayRow(left_alignment_blocks, ops[k].old_index) > ops[k].old_index
            /\ DisplayRow(right_alignment_blocks, ops[k].new_index) > ops[k].new_index

\* has_pending_theirs / has_pending_ours
has_pending(side_hunks) == \E k \in 1..Len(side_hunks) : side_hunks[k].status = "Pending"

\* the text holds the lines of sub one after the other
ContainsText(text, sub) ==
    \E i \in 0..(Len(text) - Len(sub)) : SubSeq(text, i + 1, i + Len(sub)) = sub

\* the base holds the text of every Pending hunk of the list
HoldsContentOf(base, side_hunks) ==
    \A k \in 1..Len(side_hunks) :
        IsPending(side_hunks[k]) => ContainsText(base, side_hunks[k].text)

\* C16: after accept_all_theirs (accept_all_ours) no hunk of that side is
\* Pending and the base text holds the text of every hunk of that side that
\* was Pending before.
C16_AcceptAllAccepts ==
    [][/\ accept_all_theirs =>
            /\ ~has_pending(theirs_hunks')
            /\ HoldsContentOf(base_text', theirs_hunks)
       /\ accept_all_ours =>
            /\ ~has_pending(ours_hunks')
            /\ HoldsContentOf(base_text', ours_hunks)]_vars

\* new is old with exactly the line of row k replaced, a line with lines
\* before and after it
ReplacesInteriorLine(old, new, k) ==
    LET o == DiffLines(old)
        n == DiffLines(new)
    IN /\ Len(o) = Len(n)
       /\ 0 < k /\ k < Len(o) - 1
       /\ o[k + 1] /= n[k + 1]
       /\ \A j \in 1..Len(o) : j /= k + 1 => o[j] = n[j]

\* C17: when theirs is base with one interior line k replaced, the diff is
\* exactly one Modified hunk with base_rows = source_rows = [k, k+1) and the
\* new line without its terminator as text.
C17_ReplaceOneLine ==
    \A k \in 0..MaxBaseLines :
        ReplacesInteriorLine(base_text, theirs_text, k) =>
            compute_diff_hunks(base_text, theirs_text, "Theirs")
            = <<MergeHunk("Theirs", "Modified", Range(k, k + 1), Range(k, k + 1),
                          StripNL(DiffLines(theirs_text)[k + 1]), "Pending")>>

\* an interior line is replaced by a line equal to the line before it, in a
\* text of four lines
C17_Witness ==
    \E k \in 0..MaxBaseLines :
        /\ ReplacesInteriorLine(base_text, theirs_text, k)
        /\ Len(DiffLines(base_text)) = 4
        /\ DiffLines(theirs_text)[k + 1] = DiffLines(base_text)[k]

\* new is old with lines appended behind its last line
AppendsLines(old, new) ==
    LET o == StrLines(old)
        n == StrLines(new)
    IN /\ Len(o) >= 1
       /\ Len(n) > Len(o)
       /\ SubSeq(n, 1, Len(o)) = o

\* C18: when theirs is base with lines appended, the diff is exactly one
\* Added hunk whose base_rows is the empty range at the base line count and
\* whose source_rows and text are the appended lines.
C18_AppendOneAdded ==
    AppendsLines(base_text, theirs_text) =>
        LET o == StrLines(base_text)
            n == StrLines(theirs_text)
        IN compute_diff_hunks(base_text, theirs_text, "Theirs")
           = <<MergeHunk("Theirs", "Added", Range(Len(o), Len(n)),
                         Range(Len(o), Len(o)),
                         JoinLines(SubSeq(n, Len(o) + 1, Len(n))), "Pending")>>

\* C19: for base = "1\n2\n3", theirs = "1\nT\n3", ours = "1\n2\n3\nO"
\* region merging gives two disjoint regions, the first for the theirs change
\* at base row 1, the second for the ours addition, and the second region
\* gets a base padding of one line in the ours colour.
C19_ScenarioC ==
    (/\ last_op = "new"
     /\ base_text = ScenarioBase(FALSE)
     /\ theirs_text = ScenarioTheirs(FALSE)
     /\ ours_text = ScenarioOurs(FALSE))
    => LET rs == merged_regions(theirs_hunks, ours_hunks)
       IN /\ Len(rs) = 2
          /\ rs[1].base_start = 1 /\ rs[1].base_end = 2
          /\ rs[1].theirs_ranges /= <<>> /\ rs[1].ours_ranges = <<>>
          /\ rs[1].base_end <= rs[2].base_start
          /\ rs[2].theirs_ranges = <<>> /\ rs[2].ours_ranges /= <<>>
          /\ RegionBasePadding(rs[2])
             = <<[row |-> rs[2].base_end, count |-> 1, is_theirs_color |-> FALSE]>>

PendingHunks == SelectSeq(theirs_hunks, IsPending) \o SelectSeq(ours_hunks, IsPending)

\* the base rows of the hunk lie inside the base range of the region
InsideRegion(h, region) ==
    /\ region.base_start <= h.base_rows.start
    /\ h.base_rows.end <= region.base_end

\* C20: the sorted events are in (base_start, base_end) order; the merged
\* regions are ascending and strictly separated, every Pending hunk lies
\* inside exactly one region, and every region is the hull of the base rows
\* of the hunks inside it.
C20_RegionMerging ==
    LET es == SortEvents(CollectEvents(theirs_hunks, ours_hunks))
        rs == merged_regions(theirs_hunks, ours_hunks)
        ps == PendingHunks
    IN /\ \A i \in 1..Len(es) : \A j \in 1..Len(es) :
            i < j => ~EventGreater(es[i], es[j])
       /\ \A k \in 1..(Len(rs) - 1) : rs[k].base_end < rs[k + 1].base_start
       /\ \A i \in 1..Len(ps) :
            Cardinality({k \in 1..Len(rs) : InsideRegion(ps[i], rs[k])}) = 1
       /\ \A k \in 1..Len(rs) :
            LET members == {i \in 1..Len(ps) : InsideRegion(ps[i], rs[k])}
            IN /\ members /= {}
               /\ \E i \in members : ps[i].base_rows.start = rs[k].base_start
               /\ \E i \in members : ps[i].base_rows.end = rs[k].base_end

\* two separated regions, one of them merged from hunks of both sides
C20_Witness ==
    LET rs == merged_regions(theirs_hunks, ours_hunks)
    IN /\ Len(rs) >= 2
       /\ \E k \in 1..Len(rs) :
            /\ rs[k].theirs_ranges /= <<>>
            /\ rs[k].ours_ranges /= <<>>

\* the lines [start, start + len) of the text, without terminators, joined
\* by newlines
JoinedLines(text, start, len) ==
    LET ls == StrLines(text)
    IN JoinLines([k \in 1..len |-> ls[start + k]])

\* the hunk is what the claim prescribes for the operation
ClassifiedAs(h, op, target_text) ==
    /\ h.status = "Pending"
    /\ op.tag = "Insert" =>
          /\ h.kind = "Added"
          /\ h.base_rows = Range(op.old_index, op.old_index)
          /\ h.source_rows = Range(op.new_index, op.new_index + op.new_len)
          /\ RangeLen(h.source_rows) >= 1
          /\ h.text = JoinedLines(target_text, op.new_index, op.new_len)
    /\ op.tag = "Delete" =>
          /\ h.kind = "Deleted"
          /\ h.source_rows = Range(op.new_index, op.new_index)
          /\ h.base_rows = Range(op.old_index, op.old_index + op.old_len)
          /\ RangeLen(h.base_rows) >= 1
          /\ h.text = <<>>
    /\ op.tag = "Replace" =>
          /\ h.kind = "Modified"
          /\ h.source_rows = Range(op.new_index, op.new_index + op.new_len)
          /\ h.base_rows = Range(op.old_index, op.old_index + op.old_len)
          /\ h.text = JoinedLines(target_text, op.new_index, op.new_len)

\* C21: every non-Equal operation of the diff of base against theirs
\* becomes exactly one hunk, in order, with status Pending; an Added hunk
\* has empty base_rows at the old index and non-empty source_rows, a Deleted
\* hunk empty source_rows at the new index, non-empty base_rows and empty
\* text, a Modified hunk the old and new ranges of the operation; the text
\* of Added and Modified hunks is the lines of the new range joined by
\* newlines.
C21_HunkClassification ==
    LET all == DiffOps(base_text, theirs_text)
        ops == SelectSeq(all, LAMBDA op : ~IsEqualOp(op))
        hs == compute_diff_hunks(base_text, theirs_text, "Theirs")
    IN /\ Len(hs) = Len(ops)
       /\ \A k \in 1..Len(ops) : ClassifiedAs(hs[k], ops[k], theirs_text)
       /\ theirs_hunks = hs

\* the diff has a hunk of each kind
C21_Witness ==
    \A kind \in DiffChangeKind :
        \E k \in 1..Len(theirs_hunks) : theirs_hunks[k].kind = kind

\* the line count of a space in the region: the summed lengths of its
\* tracked ranges, or the base line count when it has none
SpaceLines(ranges, region) ==
    IF ranges = <<>> THEN region.base_end - region.base_start
    ELSE SumSeq([i \in 1..Len(ranges) |-> ranges[i].end - ranges[i].start])

SpaceMaxLines(region) ==
    Max(Max(SpaceLines(region.theirs_ranges, region),
            SpaceLines(region.ours_ranges, region)),
        region.base_end - region.base_start)

\* the padding sizes of one space over the regions, given its line count
\* in each region
ExpectedPaddingSizes(regions, counts) ==
    Concat([k \in 1..Len(regions) |->
              IF counts[k] < SpaceMaxLines(regions[k])
              THEN <<SpaceMaxLines(regions[k]) - counts[k]>> ELSE <<>>])

BlockHeights(editor_blocks) == [k \in 1..Len(editor_blocks) |-> editor_blocks[k].height]

\* C22: the padding blocks of each panel are, region by region, of size
\* max_lines - count for exactly the regions where the panel's line count is
\* below max_lines; in no region all three panels are padded, and a region
\* with max_lines = 0 pads none.
C22_PaddingSize ==
    LET rs == merged_regions(theirs_hunks, ours_hunks)
        ps == paddings_of(theirs_hunks, ours_hunks)
    IN /\ BlockHeights(theirs_alignment_blocks)
          = ExpectedPaddingSizes(rs, [k \in 1..Len(rs) |-> SpaceLines(rs[k].theirs_ranges, rs[k])])
       /\ BlockHeights(base_alignment_blocks)
          = ExpectedPaddingSizes(rs, [k \in 1..Len(rs) |-> rs[k].base_end - rs[k].base_start])
       /\ BlockHeights(ours_alignment_blocks)
          = ExpectedPaddingSizes(rs, [k \in 1..Len(rs) |-> SpaceLines(rs[k].ours_ranges, rs[k])])
       /\ \A k \in 1..Len(rs) :
            \/ RegionTheirsPadding(rs[k], side_changes(theirs_hunks)) = <<>>
            \/ RegionBasePadding(rs[k]) = <<>>
            \/ RegionOursPadding(rs[k], side_changes(ours_hunks)) = <<>>
       /\ \A k \in 1..Len(rs) :
            SpaceMaxLines(rs[k]) = 0 =>
                /\ RegionTheirsPadding(rs[k], side_changes(theirs_hunks)) = <<>>
                /\ RegionBasePadding(rs[k]) = <<>>
                /\ RegionOursPadding(rs[k], side_changes(ours_hunks)) = <<>>

\* a region with two tracked ranges of one side and none of the other, and
\* padding in two panels
C22_Witness ==
    LET rs == merged_regions(theirs_hunks, ours_hunks)
    IN /\ \E k \in 1..Len(rs) :
            \/ Len(rs[k].theirs_ranges) >= 2
            \/ Len(rs[k].ours_ranges) >= 2
       /\ \E k \in 1..Len(rs) : rs[k].theirs_ranges = <<>> \/ rs[k].ours_ranges = <<>>
       /\ Cardinality({b \in {"t", "b", "o"} :
              CASE b = "t" -> theirs_alignment_blocks /= <<>>
                [] b = "b" -> base_alignment_blocks /= <<>>
                [] b = "o" -> ours_alignment_blocks /= <<>>}) >= 2

\* the row the claim gives for the padding of a side in the region
ExpectedInsertRow(ranges, region, side_hunks) ==
    IF ranges /= <<>> THEN ranges[Len(ranges)].end
    ELSE base_to_side(region.base_end, side_changes(side_hunks))

\* the rows of the padding blocks of one panel: for each region whose
\* panel is padded, the insertion row, clamped to the last row of the editor
ExpectedBlockRows(regions, counts, rows, editor_text) ==
    Concat([k \in 1..Len(regions) |->
              IF counts[k] < SpaceMaxLines(regions[k])
              THEN <<Min(rows[k], MaxPointRow(editor_text))>> ELSE <<>>])

BlockRows(editor_blocks) == [k \in 1..Len(editor_blocks) |-> editor_blocks[k].row]

\* C23: the padding of a side with tracked ranges in the region is inserted
\* at the end row of its last tracked range, which is the greatest end of
\* its tracked ranges; the padding of a side without tracked range at
\* map(base_end); the padding of the base panel at base_end. The block
\* stands above that row, clamped to the last row of the editor.
C23_PaddingInsertRow ==
    LET rs == merged_regions(theirs_hunks, ours_hunks)
        n == Len(rs)
    IN /\ BlockRows(theirs_alignment_blocks)
          = ExpectedBlockRows(rs,
               [k \in 1..n |-> SpaceLines(rs[k].theirs_ranges, rs[k])],
               [k \in 1..n |-> ExpectedInsertRow(rs[k].theirs_ranges, rs[k], theirs_hunks)],
               theirs_text)
       /\ BlockRows(ours_alignment_blocks)
          = ExpectedBlockRows(rs,
               [k \in 1..n |-> SpaceLines(rs[k].ours_ranges, rs[k])],
               [k \in 1..n |-> ExpectedInsertRow(rs[k].ours_ranges, rs[k], ours_hunks)],
               ours_text)
       /\ BlockRows(base_alignment_blocks)
          = ExpectedBlockRows(rs,
               [k \in 1..n |-> rs[k].base_end - rs[k].base_start],
               [k \in 1..n |-> rs[k].base_end],
               base_text)
       /\ \A k \in 1..n :
            /\ \A i \in 1..Len(rs[k].theirs_ranges) :
                 rs[k].theirs_ranges[i].end
                 <= rs[k].theirs_ranges[Len(rs[k].theirs_ranges)].end
            /\ \A i \in 1..Len(rs[k].ours_ranges) :
                 rs[k].ours_ranges[i].end
                 <= rs[k].ours_ranges[Len(rs[k].ours_ranges)].end

\* a padded side with two tracked ranges in the region, and a padded side
\* with none
C23_Witness ==
    LET rs == merged_regions(theirs_hunks, ours_hunks)
    IN /\ \E k \in 1..Len(rs) :
            \/ /\ Len(rs[k].theirs_ranges) >= 2
               /\ RegionTheirsPadding(rs[k], side_changes(theirs_hunks)) /= <<>>
            \/ /\ Len(rs[k].ours_ranges) >= 2
               /\ RegionOursPadding(rs[k], side_changes(ours_hunks)) /= <<>>
       /\ \E k \in 1..Len(rs) :
            \/ /\ rs[k].theirs_ranges = <<>>
               /\ RegionTheirsPadding(rs[k], side_changes(theirs_hunks)) /= <<>>
            \/ /\ rs[k].ours_ranges = <<>>
               /\ RegionOursPadding(rs[k], side_changes(ours_hunks)) /= <<>>

\* C24: a step of ignore_theirs_hunk or ignore_ours_hunk, whatever its
\* index, leaves the texts of the base, theirs and ours buffers unchanged.
C24_IgnoreKeepsBuffers ==
    [][last_op' \in {"ignore_theirs_hunk", "ignore_ours_hunk"}
       => UNCHANGED <<theirs_text, base_text, ours_text>>]_vars

\* a hunk that an accept would have written to the base buffer has been
\* ignored
C24_Witness ==
    /\ last_op \in {"ignore_theirs_hunk", "ignore_ours_hunk"}
    /\ ~early_return
    /\ \E k \in 1..Len(theirs_hunks) :
         /\ theirs_hunks[k].kind /= "Deleted"
         /\ apply_hunk_to_base(base_text, theirs_hunks[k]) /= base_text

\* C25: accepting a Pending hunk of kind Deleted leaves the text of the
\* base buffer as it was.
C25_AcceptDeletedEditsNothing ==
    [][/\ \A i \in 0..Len(theirs_hunks) :
            (/\ get_pending(theirs_hunks, i) /= <<>>
             /\ theirs_hunks[i + 1].kind = "Deleted"
             /\ accept_theirs_hunk(i))
            => base_text' = base_text
       /\ \A i \in 0..Len(ours_hunks) :
            (/\ get_pending(ours_hunks, i) /= <<>>
             /\ ours_hunks[i + 1].kind = "Deleted"
             /\ accept_ours_hunk(i))
            => base_text' = base_text]_vars

\* theirs is empty, so that the theirs hunk that has just been accepted
\* deleted every line of the base
C25_Witness ==
    /\ last_op = "accept_theirs_hunk"
    /\ ~early_return
    /\ theirs_text = <<>>
    /\ base_text /= <<>>

\* the list without its element at the 0-based index
WithoutHunk(side_hunks, hunk_index) ==
    SubSeq(side_hunks, 1, hunk_index) \o SubSeq(side_hunks, hunk_index + 2, Len(side_hunks))

RecomputingOps ==
    {"new", "accept_theirs_hunk", "accept_ours_hunk", "ignore_theirs_hunk",
     "ignore_ours_hunk", "accept_all_theirs", "accept_all_ours"}

\* C27: between operations every stored hunk is Pending, so that
\* all_hunks_processed holds exactly when both hunk lists are empty; after
\* construction and after an accept, ignore or accept-all that reached the
\* recomputation that is exactly when the base text equals theirs and ours.
C27_StatusesNeverSurvive ==
    /\ \A k \in 1..Len(theirs_hunks) : theirs_hunks[k].status = "Pending"
    /\ \A k \in 1..Len(ours_hunks) : ours_hunks[k].status = "Pending"
    /\ all_hunks_processed(theirs_hunks, ours_hunks)
       <=> (theirs_hunks = <<>> /\ ours_hunks = <<>>)
    /\ (last_op \in RecomputingOps /\ ~early_return) =>
          (all_hunks_processed(theirs_hunks, ours_hunks)
           <=> (base_text = theirs_text /\ base_text = ours_text))

\* a hunk has been ignored and the side still has a hunk
C27_Witness ==
    \/ last_op = "ignore_theirs_hunk" /\ ~early_return /\ theirs_hunks /= <<>>
    \/ last_op = "accept_all_ours" /\ ours_hunks /= <<>>

\* no Pending hunk of the side overlaps or touches the base range of the region
NoHunkTouches(side_hunks, region) ==
    \A k \in 1..Len(side_hunks) :
        IsPending(side_hunks[k]) =>
            \/ side_hunks[k].base_rows.end < region.base_start
            \/ side_hunks[k].base_rows.start > region.base_end

\* base_row plus the net line delta of the Pending hunks of the side that
\* lie entirely before it
RowBehindHunksBefore(side_hunks, base_row) ==
    base_row
    + SumSeq([k \in 1..Len(side_hunks) |->
                IF IsPending(side_hunks[k]) /\ side_hunks[k].base_rows.end <= base_row
                THEN RangeLen(side_hunks[k].source_rows) - RangeLen(side_hunks[k].base_rows)
                ELSE 0])

\* the row of the side text is the one the line diff matches with the base
\* row, or both are the rows behind the last line
LineAligned(base, side_text, base_row, side_row) ==
    LET ops == DiffOps(base, side_text)
    IN \/ \E k \in 1..Len(ops) :
            /\ IsEqualOp(ops[k])
            /\ InRange(base_row, Range(ops[k].old_index, ops[k].old_index + ops[k].old_len))
            /\ side_row = ops[k].new_index + (base_row - ops[k].old_index)
       \/ /\ base_row = LineCount(base)
          /\ side_row = LineCount(side_text)

MappedRowCorresponds(side_hunks, side_text, region) ==
    LET changes == side_changes(side_hunks)
        mapped == base_to_side(region.base_end, changes)
    IN /\ NoHunkTouches(side_hunks, region)
       /\ mapped = RowBehindHunksBefore(side_hunks, region.base_end)
       /\ region.base_end + ChangeOffset(region.base_end, changes) >= 0
       /\ LineAligned(base_text, side_text, region.base_end, mapped)

\* C28: when a region has no tracked range of a side, no hunk of that side
\* overlaps or touches the region, map(base_end) is base_end plus the net
\* delta of the side's hunks that lie entirely before base_end, it is the
\* row of the side text that the diff aligns with base row base_end, and
\* the clamp to 0 is not exercised.
C28_MappedRowCorresponds ==
    LET rs == merged_regions(theirs_hunks, ours_hunks)
    IN \A k \in 1..Len(rs) :
         /\ rs[k].theirs_ranges = <<>> => MappedRowCorresponds(theirs_hunks, theirs_text, rs[k])
         /\ rs[k].ours_ranges = <<>> => MappedRowCorresponds(ours_hunks, ours_text, rs[k])

\* a region without theirs range is padded in theirs behind a theirs hunk
\* that changes the number of lines
C28_Witness ==
    LET rs == merged_regions(theirs_hunks, ours_hunks)
    IN \E k \in 1..Len(rs) :
         /\ rs[k].theirs_ranges = <<>>
         /\ RegionTheirsPadding(rs[k], side_changes(theirs_hunks)) /= <<>>
         /\ base_to_side(rs[k].base_end, side_changes(theirs_hunks)) /= rs[k].base_end

\* the padding blocks one pass of the three-way editor inserts for the
\* current texts
FreshBlocks ==
    update_alignment_and_highlighting(<<>>, <<>>, base_text, theirs_text, ours_text)

\* the padding blocks one pass of the side-by-side view inserts for the
\* current texts
FreshSideBySideBlocks ==
    SideBySide_update_alignment_and_highlighting(<<>>, <<>>, old_text, new_text)

\* C29: after any sequence of recomputation passes the padding blocks of
\* each editor, which are the tracked blocks, are exactly the blocks that
\* one pass over the current texts inserts: no block of an earlier pass
\* remains, in the side-by-side view and in the three-way editor.
C29_BlocksDoNotAccumulate ==
    /\ left_alignment_blocks = FreshSideBySideBlocks.left_alignment_blocks
    /\ right_alignment_blocks = FreshSideBySideBlocks.right_alignment_blocks
    /\ theirs_alignment_blocks = FreshBlocks.theirs_alignment_blocks
    /\ base_alignment_blocks = FreshBlocks.base_alignment_blocks
    /\ ours_alignment_blocks = FreshBlocks.ours_alignment_blocks

\* a DiffChanged pass of the side-by-side view has left padding in an
\* editor, while the editors of the three-way editor hold padding
C29_Witness ==
    /\ last_op = "diff_changed"
    /\ left_alignment_blocks \o right_alignment_blocks /= <<>>
    /\ theirs_alignment_blocks \o base_alignment_blocks \o ours_alignment_blocks /= <<>>
    /\ base_text /= <<>>

\* the lines of the base after the accept are the lines before the base
\* rows of the hunk, the lines of the text of the hunk, and the lines from
\* the end of its base rows on
EditsOwnRows(h, base_before, base_after) ==
    LET before == StrLines(base_before)
    IN StrLines(base_after)
       = SubSeq(before, 1, h.base_rows.start)
         \o StrLines(h.text)
         \o SubSeq(before, h.base_rows.end + 1, Len(before))

\* C30: accepting a Pending Added or Modified hunk of the diff of the
\* current base leaves the base lines before its base rows and from the end
\* of its base rows on unchanged and in order, with exactly the lines of
\* the text of the hunk between them.
C30_AcceptEditsOwnRows ==
    [][/\ \A i \in 0..Len(theirs_hunks) :
            (/\ HunksFresh
             /\ get_pending(theirs_hunks, i) /= <<>>
             /\ theirs_hunks[i + 1].kind \in {"Added", "Modified"}
             /\ accept_theirs_hunk(i))
            => EditsOwnRows(theirs_hunks[i + 1], base_text, base_text')
       /\ \A i \in 0..Len(ours_hunks) :
            (/\ HunksFresh
             /\ get_pending(ours_hunks, i) /= <<>>
             /\ ours_hunks[i + 1].kind \in {"Added", "Modified"}
             /\ accept_ours_hunk(i))
            => EditsOwnRows(ours_hunks[i + 1], base_text, base_text')]_vars

\* an accept has made a base of three lines or more equal to theirs
C30_Witness ==
    /\ last_op = "accept_theirs_hunk"
    /\ ~early_return
    /\ LineCount(base_text) >= 3
    /\ base_text = theirs_text

====
